---------------------------- MODULE Spec2Model ----------------------------
(***************************************************************************)
(* Karhunen-Loeve Monte Carlo notebook (src/klmcNotebook.ipynb).           *)
(*                                                                         *)
(* Numbers.  The notebook works in floating point; the model works in      *)
(* exact integer arithmetic and writes every rational as a numerator over  *)
(* a denominator that is stated beside it:                                 *)
(*   - a level m (moneyness or barrier) is stored in hundredths, m*100;    *)
(*   - a running-average value is stored with its denominator (2*i at row  *)
(*     i), a price as [num, den];                                          *)
(*   - a time is an integer count of grid steps over the number of steps;  *)
(*   - an eigenfunction F/L2Norm(F) is stored as the direction F with the  *)
(*     square of its norm, because the norm itself is a square root.       *)
(* Random draws (rdm.randn in BM) are nondeterministic choices.            *)
(***************************************************************************)
EXTENDS Integers, Sequences, FiniteSets, TLC

VARIABLES pc, args, loc, work, ret, F, mu, phiInv, key, p, saved, heap

vars == <<pc, args, loc, work, ret, F, mu, phiInv, key, p, saved, heap>>

None == "None"

-----------------------------------------------------------------------------
(* Parameters cell (notebook lines 42-71).  x0, T and r are the notebook's  *)
(* values; Noff, Joff, J and nT are the notebook's globals at a scale TLC   *)
(* can enumerate (the notebook sets 1000, 2**17, 2**19 and 52).             *)

x0 == 100

T == 1

r == 0

Noff == 2

Joff == 5

J == 2

nT == 2

(* Bounds of the model. *)
MaxDev == 2

MaxLevels == 2

MaxTaus == 2

MaxN == 2

MaxNoff == 60

MaxK == 4

MaxSteps == 4

-----------------------------------------------------------------------------
(* Arithmetic helpers. *)

Abs(x) == IF x < 0 THEN -x ELSE x

Max2(a, b) == IF a >= b THEN a ELSE b

Min2(a, b) == IF a <= b THEN a ELSE b

RECURSIVE SumSeq(_)
SumSeq(s) == IF s = <<>> THEN 0 ELSE Head(s) + SumSeq(Tail(s))

RECURSIVE Gcd(_, _)
Gcd(a, b) == IF b = 0 THEN a ELSE Gcd(b, a % b)

Lcm(a, b) == (a * b) \div Gcd(a, b)

(* All sequences over S of length n, and matrices with nr rows, nc columns. *)
SeqsOf(S, n) == [1..n -> S]

Matrices(S, nr, nc) == [1..nr -> [1..nc -> S]]

-----------------------------------------------------------------------------
(* Functionals f (lines 51-53, 57).  A path ensemble X is a matrix with one *)
(* row per time point and one column per simulation.                        *)

(* np.cumsum(A, axis=0): row i is the sum of rows 1..i. *)
RECURSIVE CumSumRows(_, _)
CumSumRows(A, i) ==
    IF i = 1 THEN A[1]
    ELSE [c \in 1..Len(A[1]) |-> CumSumRows(A, i - 1)[c] + A[i][c]]

(* (X[:-1,:] + X[1:,:])/2 : numerators over 2. *)
PairSums(X) == [i \in 1..(Len(X) - 1) |-> [c \in 1..Len(X[1]) |-> X[i][c] + X[i + 1][c]]]

(* A slip of f["Asian"]: the cumulative sums divided by arange(2, N+2).     *)
fAsianShifted(X) ==
    LET N  == Len(X) - 1
        PS == PairSums(X)
    IN  [t \in 1..(N + 1) |->
            [c \in 1..Len(X[1]) |->
                IF t = 1 THEN [num |-> X[1][c], den |-> 1]
                ELSE [num |-> CumSumRows(PS, t - 1)[c], den |-> 2 * t]]]

(* f["Asian"]: row 0 is X[0]; row i is cumsum(pair averages)[i] / arange(1,N+1)[i]. *)
(* Entry [num, den]: row 0 has den 1, row i has den 2*i.                    *)
fAsian(X) ==
    LET N  == Len(X) - 1
        PS == PairSums(X)
    IN  [t \in 1..(N + 1) |->
            [c \in 1..Len(X[1]) |->
                IF t = 1 THEN [num |-> X[1][c], den |-> 1]
                ELSE [num |-> CumSumRows(PS, t - 1)[c], den |-> 2 * (t - 1)]]]

(* f["Lookback"]: np.maximum.accumulate(X, axis=0). *)
RECURSIVE MaxAccumulate(_, _, _)
MaxAccumulate(X, t, c) ==
    IF t = 1 THEN X[1][c] ELSE Max2(MaxAccumulate(X, t - 1, c), X[t][c])

fLookback(X) ==
    [t \in 1..Len(X) |-> [c \in 1..Len(X[1]) |-> [num |-> MaxAccumulate(X, t, c), den |-> 1]]]

(* f["U&O"] = f["Lookback"] (line 57). *)
f(name, X) == IF name = "Asian" THEN fAsian(X) ELSE fLookback(X)

-----------------------------------------------------------------------------
(* Payoffs (lines 54-61).  y is [num, den]; m is in hundredths.             *)

(* hV = max(y - m*x0, 0), as a numerator over 100*y.den. *)
hV(y, m) == [num |-> Max2(100 * y.num - m * x0 * y.den, 0), den |-> 100 * y.den]

(* hUO = 1 * (y < b*x0). *)
hUO(y, b) == [num |-> IF 100 * y.num < b * x0 * y.den THEN 1 ELSE 0, den |-> 1]

h == ("Asian" :> "hV") @@ ("Lookback" :> "hV") @@ ("U&O" :> "hUO")

(* The keys of h in insertion order (line 61). *)
hKeys == <<"Asian", "Lookback", "U&O">>

ApplyH(hname, y, m) == IF hname = "hV" THEN hV(y, m) ELSE hUO(y, m)

-----------------------------------------------------------------------------
(* mcPrice (lines 170-172).                                                 *)

(* np.exp(-r*tau) with r = 0.0 (line 47). *)
Discount(tau) == 1

(* np.mean(h(Y,m), axis=1)[t]: the payoffs of row t share one denominator   *)
(* when the row's values do (they do: a row is one time point).             *)
MeanRow(Y, hname, m, t) ==
    LET pay == [c \in 1..Len(Y[t]) |-> ApplyH(hname, Y[t][c], m)]
    IN  [num |-> SumSeq([c \in 1..Len(Y[t]) |-> pay[c].num]),
         den |-> pay[1].den * Len(Y[t])]

(* One row of the table: exp(-r*Taus) * mean(...), elementwise over Taus.   *)
PriceRow(Y, hname, m, Taus) ==
    [c \in 1..Len(Taus) |->
        [num |-> Discount(Taus[c]) * MeanRow(Y, hname, m, c).num,
         den |-> MeanRow(Y, hname, m, c).den]]

(* A slip of mcPrice: the rows stacked per maturity instead of per level.   *)
mcPriceByMaturity(Y, hname, Ms, Taus) ==
    [c \in 1..Len(Taus) |-> [i \in 1..Len(Ms) |-> PriceRow(Y, hname, Ms[i], Taus)[c]]]

(* np.vstack([... for m in Ms]). *)
mcPrice(Y, hname, Ms, Taus) == [i \in 1..Len(Ms) |-> PriceRow(Y, hname, Ms[i], Taus)]

-----------------------------------------------------------------------------
(* Trapezoidal weights w (lines 95-96), as numerators over 2.               *)
(* np.eye(N+1)[:,1:-1] keeps columns 1..N-1; the row sum is 1 exactly for   *)
(* rows 1..N-1; w = 2**(rowsum - 1), so 2*w = 2**rowsum.                    *)

Eye(i, c) == IF i = c THEN 1 ELSE 0

RowSumInterior(N, i) == SumSeq([c \in 1..(N - 1) |-> Eye(i, c)])

(* A slip of w: the slice [:,1:] instead of [:,1:-1]. *)
wTwiceOpenEnd(N) == [t \in 1..(N + 1) |-> 2 ^ SumSeq([c \in 1..N |-> Eye(t - 1, c)])]

wTwice(N) == [t \in 1..(N + 1) |-> 2 ^ RowSumInterior(N, t - 1)]


-----------------------------------------------------------------------------
(* Specification SpecPrice: one call of mcPrice on an arbitrary value       *)
(* matrix with one row per maturity.                                        *)

SimCounts == {1, 2}

LevelSet == {75, 100, 125}

YDens == {1, 2}

YNums(d) == {d * x0 - 1, d * x0, d * x0 + 1}

(* linspace(1/n, T, n): maturity c of n, as a count of steps over n. *)
TausOf(n) == [c \in 1..n |-> [num |-> c * T, den |-> n]]

Idle ==
    /\ loc = None /\ work = None /\ F = None /\ mu = None /\ phiInv = None
    /\ key = None /\ p = None /\ saved = None /\ heap = None

IdleUnchanged == UNCHANGED <<loc, work, F, mu, phiInv, key, p, saved, heap>>

InitPrice ==
    /\ pc = "mcPrice"
    /\ \E nTau \in 1..MaxTaus : \E nSim \in SimCounts : \E d \in YDens : \E nLev \in 1..MaxLevels :
       \E Yn \in Matrices(YNums(d), nTau, nSim) : \E hname \in {"hV", "hUO"} :
       \E ms \in SeqsOf(LevelSet, nLev) :
          args = [Y |-> [t \in 1..nTau |-> [c \in 1..nSim |-> [num |-> Yn[t][c], den |-> d]]],
                  h |-> hname, Ms |-> ms, Taus |-> TausOf(nTau)]
    /\ ret = None
    /\ Idle

CallMcPrice ==
    /\ pc = "mcPrice"
    /\ ret' = mcPrice(args.Y, args.h, args.Ms, args.Taus)
    /\ pc' = "returned"
    /\ UNCHANGED args
    /\ IdleUnchanged

NextPrice == CallMcPrice

SpecPrice == InitPrice /\ [][NextPrice]_vars

(* The payoffs of row c at level m, summed over the simulations. *)
RefPaySum(Y, hname, m, c) ==
    LET n == Len(Y[c])
        pay(k) == IF hname = "hV"
                  THEN (IF 100 * Y[c][k].num > m * x0 * Y[c][k].den
                        THEN 100 * Y[c][k].num - m * x0 * Y[c][k].den ELSE 0)
                  ELSE (IF 100 * Y[c][k].num < m * x0 * Y[c][k].den THEN 100 * Y[c][k].den ELSE 0)
        g[k \in 0..n] == IF k = 0 THEN 0 ELSE g[k - 1] + pay(k)
    IN  g[n]

(* C1: mcPrice(Y,h,Ms,Taus) returns a table with len(Ms) rows and len(Taus) *)
(* columns whose cell (level m, maturity tau) is exp(-r*tau) times the mean *)
(* over the simulations of h(Y[tau,:],m); every cell is non-negative for hV *)
(* and lies in [0,1] for hUO.                                               *)
C1_McPriceTable ==
    pc = "returned" =>
        /\ Len(ret) = Len(args.Ms)
        /\ \A i \in 1..Len(args.Ms) :
              /\ Len(ret[i]) = Len(args.Taus)
              /\ \A c \in 1..Len(args.Taus) :
                    LET cell == ret[i][c]
                        n    == Len(args.Y[c])
                        d    == args.Y[c][1].den
                    IN  /\ cell.den > 0
                        /\ cell.num * (100 * d * n)
                             = RefPaySum(args.Y, args.h, args.Ms[i], c) * cell.den
                        /\ cell.num >= 0
                        /\ args.h = "hUO" => cell.num <= cell.den

C1_Witness ==
    /\ pc = "returned"
    /\ Len(args.Ms) # Len(args.Taus)
    /\ Len(args.Y[1]) = 2
    /\ args.h = "hUO"
    /\ \E i \in 1..Len(ret) : \E c \in 1..Len(ret[i]) :
          ret[i][c].num > 0 /\ ret[i][c].num < ret[i][c].den

-----------------------------------------------------------------------------
(* Specification SpecAsian: one application of f["Asian"] to an arbitrary   *)
(* path ensemble with N+1 >= 2 rows.                                        *)

PathVals == x0..(x0 + MaxDev)

InitAsian ==
    /\ pc = "fAsian"
    /\ \E N \in 1..MaxN : \E nSim \in SimCounts :
          args \in {[X |-> X] : X \in Matrices(PathVals, N + 1, nSim)}
    /\ ret = None
    /\ Idle

CallAsian ==
    /\ pc = "fAsian"
    /\ ret' = fAsian(args.X)
    /\ pc' = "returned"
    /\ UNCHANGED args
    /\ IdleUnchanged

NextAsian == CallAsian

SpecAsian == InitAsian /\ [][NextAsian]_vars

(* Sum over j = 1..i of X[j-1] + X[j] in column c (rows counted from 0). *)
RefPairTotal(X, i, c) ==
    LET g[k \in 0..i] == IF k = 0 THEN 0 ELSE g[k - 1] + X[k][c] + X[k + 1][c]
    IN  g[i]

ColMin(X, i, c) == CHOOSE v \in {X[k][c] : k \in 1..(i + 1)} :
                      \A k \in 1..(i + 1) : v <= X[k][c]

ColMax(X, i, c) == CHOOSE v \in {X[k][c] : k \in 1..(i + 1)} :
                      \A k \in 1..(i + 1) : v >= X[k][c]

(* C10: f["Asian"](X) has the shape of X, row 0 equal to X[0] and row i     *)
(* equal to (1/i) * sum over j=1..i of (X[j-1]+X[j])/2, per column; each    *)
(* value lies between the column's minimum and maximum up to time i.        *)
C10_AsianRunningAverage ==
    pc = "returned" =>
        LET X == args.X
            N == Len(X) - 1
        IN  /\ Len(ret) = Len(X)
            /\ \A t \in 1..Len(X) : Len(ret[t]) = Len(X[t])
            /\ \A c \in 1..Len(X[1]) :
                  /\ ret[1][c].den > 0
                  /\ ret[1][c].num = X[1][c] * ret[1][c].den
                  /\ \A i \in 1..N :
                        LET y == ret[i + 1][c]
                        IN  /\ y.den > 0
                            /\ y.num * 2 * i = RefPairTotal(X, i, c) * y.den
                            /\ ColMin(X, i, c) * y.den <= y.num
                            /\ y.num <= ColMax(X, i, c) * y.den

C10_Witness ==
    /\ pc = "returned"
    /\ Len(args.X) = 3
    /\ Len(args.X[1]) = 2
    /\ args.X[1][1] # args.X[2][1]
    /\ ret[3][1] # ret[3][2]
    /\ ret[3][1].num % ret[3][1].den # 0

-----------------------------------------------------------------------------
(* Specification SpecGrid: the Trapezoidal Weights statement (line 96) for  *)
(* a grid of Noff >= 2 steps.                                               *)

InitGrid ==
    /\ pc = "w"
    /\ args \in {[Noff |-> n] : n \in 2..MaxNoff}
    /\ ret = None
    /\ Idle

BuildWeights ==
    /\ pc = "w"
    /\ ret' = wTwice(args.Noff)
    /\ pc' = "returned"
    /\ UNCHANGED args
    /\ IdleUnchanged

NextGrid == BuildWeights

SpecGrid == InitGrid /\ [][NextGrid]_vars

(* C9: w has Noff+1 entries, 1/2 at the first and last time point and 1 at  *)
(* every interior one, so that sum(w) * dt = T with dt = T/Noff.            *)
C9_TrapezoidalWeights ==
    pc = "returned" =>
        LET N == args.Noff
            total[k \in 0..Len(ret)] == IF k = 0 THEN 0 ELSE total[k - 1] + ret[k]
        IN  /\ Len(ret) = N + 1
            /\ ret[1] = 1
            /\ ret[N + 1] = 1
            /\ \A t \in 2..N : ret[t] = 2
            /\ total[Len(ret)] * T = 2 * N * T

C9_Witness ==
    /\ pc = "returned"
    /\ args.Noff = 7
    /\ ret[4] = 2

-----------------------------------------------------------------------------
(* Linear algebra on integer matrices (a matrix is a sequence of rows).     *)

MatVec(A, v) == [s \in 1..Len(A) |-> SumSeq([t \in 1..Len(v) |-> A[s][t] * v[t]])]

Minor(M, c) ==
    [i \in 1..(Len(M) - 1) |-> [j \in 1..(Len(M) - 1) |-> M[i + 1][IF j < c THEN j ELSE j + 1]]]

RECURSIVE Det(_)
Det(M) ==
    IF Len(M) = 1 THEN M[1][1]
    ELSE SumSeq([c \in 1..Len(M) |->
                    (IF c % 2 = 1 THEN 1 ELSE -1) * M[1][c] * Det(Minor(M, c))])

-----------------------------------------------------------------------------
(* Simulation: BM and w2X (lines 49, 89-93).  W[0] = 0 and Ts[0] = 0, so    *)
(* row 0 of w2X(BM(T,N,nSim),Ts) is x0 in every column; each later entry is *)
(* x0*exp(...) of a normal draw, any positive number: a choice from vals.   *)

(* The simulations are exchangeable (every later step treats the columns    *)
(* alike), so the ensembles are enumerated with their columns in            *)
(* lexicographic order.                                                     *)
RECURSIVE LexLeq(_, _, _)
LexLeq(a, b, t) ==
    IF t > Len(a) THEN TRUE
    ELSE IF a[t] < b[t] THEN TRUE
    ELSE IF a[t] > b[t] THEN FALSE
    ELSE LexLeq(a, b, t + 1)

SimulatedPaths(N, nSim, vals) ==
    {[t \in 1..(N + 1) |-> [c \in 1..nSim |-> IF t = 1 THEN x0 ELSE cols[c][t - 1]]] :
        cols \in {cs \in [1..nSim -> [1..N -> vals]] :
                    \A c \in 1..(nSim - 1) : LexLeq(cs[c], cs[c + 1], 1)}}

(* Joff independent draws of a continuous distribution: no time point after *)
(* 0 has the same value in every simulation.                                *)
NoConstantRow(X) ==
    \A t \in 2..Len(X) : \E c \in 1..Len(X[t]) : X[t][c] # X[t][1]

(* np.linspace(0,T,N+1) and the step T/N: time i is [num |-> i*T, den |-> N]. *)
Linspace0(N) == [i \in 1..(N + 1) |-> [num |-> (i - 1) * T, den |-> N]]

-----------------------------------------------------------------------------
(* Offline numerics (lines 95-125).                                         *)

(* The common denominator of a functional-path matrix and its numerators.   *)
RECURSIVE RowDenLcm(_, _)
RowDenLcm(Y, t) == IF t = 0 THEN 1 ELSE Lcm(Y[t][1].den, RowDenLcm(Y, t - 1))

YDen(Y) == RowDenLcm(Y, Len(Y))

YInt(Y) == [t \in 1..Len(Y) |-> [c \in 1..Len(Y[t]) |-> Y[t][c].num * (YDen(Y) \div Y[t][c].den)]]

(* np.mean(Y,axis=1): row sums over YDen(Y)*nSim. *)
RowSums(Y) == [t \in 1..Len(Y) |-> SumSeq(YInt(Y)[t])]

(* np.cov(Y): sum_j (Y[s,j]-mean_s)(Y[t,j]-mean_t)/(nSim-1), as a numerator *)
(* matrix over YDen(Y)^2 * nSim * (nSim-1).                                 *)
CovNum(Y) ==
    LET Yi == YInt(Y)
        n  == Len(Y[1])
        rs == RowSums(Y)
    IN  [s \in 1..Len(Y) |-> [t \in 1..Len(Y) |->
            n * SumSeq([c \in 1..n |-> Yi[s][c] * Yi[t][c]]) - rs[s] * rs[t]]]

(* kappa * w.T * dt: column t scaled by w[t]*dt, as a numerator matrix over *)
(* 2*Noff times the denominator of kappa.                                   *)
FredholmOperator(kappaNum) ==
    [s \in 1..Len(kappaNum) |-> [t \in 1..Len(kappaNum) |->
        kappaNum[s][t] * wTwice(Noff)[t] * T]]

(* A slip of L2Norm: the plain sum of squares, without the weights w.       *)
L2NormSqUnweighted(v) ==
    [num |-> SumSeq([t \in 1..Len(v) |-> 2 * v[t] * v[t]]) * T, den |-> 2 * Noff]

(* L2Norm(Y)**2 = sum(w * Y**2) * dt for one column. *)
L2NormSq(v) ==
    [num |-> SumSeq([t \in 1..Len(v) |-> wTwice(Noff)[t] * v[t] * v[t]]) * T, den |-> 2 * Noff]

(* ln.eig: n eigenpairs, the eigenvectors linearly independent, in an order *)
(* and with a basis of each eigenspace that numpy does not specify.  An     *)
(* eigenvector is known up to its length (KL divides it by its norm), so    *)
(* it is stored as a direction: an integer vector with entries in           *)
(* EigEntries, no common factor and a positive first non-zero entry.        *)
EigEntries == {-2, -1, 0, 1, 2}

RECURSIVE GcdSeq(_)
GcdSeq(v) == IF v = <<>> THEN 0 ELSE Gcd(Abs(Head(v)), GcdSeq(Tail(v)))

FirstNonZero(v) == CHOOSE k \in 1..Len(v) : v[k] # 0 /\ \A j \in 1..(k - 1) : v[j] = 0

EigDirs(n) ==
    {v \in [1..n -> EigEntries] :
        (\E k \in 1..n : v[k] # 0) /\ v[FirstNonZero(v)] > 0 /\ GcdSeq(v) = 1}

(* A v = lbda v with A and v integer and v without a common factor makes    *)
(* lbda an integer.                                                         *)
Eigenvalue(A, v) == MatVec(A, v)[FirstNonZero(v)] \div v[FirstNonZero(v)]

IsEigVec(A, v) ==
    LET Av == MatVec(A, v)
        k  == FirstNonZero(v)
    IN  /\ Av[k] % v[k] = 0
        /\ \A s \in 1..Len(A) : Av[s] = (Av[k] \div v[k]) * v[s]

EigVecs(A) == {v \in EigDirs(Len(A)) : IsEigVec(A, v)}

(* Every choice of n linearly independent eigenvector directions, in every  *)
(* order.  An operator whose eigenvectors are not all of the stored form    *)
(* has no output here, and the call is not followed further.                *)
EigOutputs(A) ==
    LET ev == EigVecs(A)
    IN  {[lbda |-> [k \in 1..Len(A) |-> Eigenvalue(A, cols[k])], F |-> cols] :
            cols \in {c \in [1..Len(A) -> ev] : Det(c) # 0}}

(* A variant of KL that sorts the eigenpairs by descending |eigenvalue|. *)
KLSortedByMagnitude(out) ==
    LET n == Len(out.F)
        q == CHOOSE g \in [1..n -> 1..n] :
                /\ \A a, b \in 1..n : a # b => g[a] # g[b]
                /\ \A a \in 1..(n - 1) : Abs(out.lbda[g[a]]) >= Abs(out.lbda[g[a + 1]])
    IN  [F_   |-> [k \in 1..n |-> [dir |-> out.F[q[k]], sq |-> L2NormSq(out.F[q[k]])]],
         lbda |-> [k \in 1..n |-> out.lbda[q[k]]]]

(* KL returns F / L2Norm(F), lbda: column k as its direction and the square *)
(* of the norm it is divided by.                                            *)
KLResult(out) ==
    [F_   |-> [k \in 1..Len(out.F) |-> [dir |-> out.F[k], sq |-> L2NormSq(out.F[k])]],
     lbda |-> out.lbda]

(* F_[:,:K]: a slice keeps the columns that exist. *)
SliceCols(F_, K) == SubSeq(F_, 1, Min2(K, Len(F_)))

(* xi = F_[:,:K].T @ (w * (Y - mu_)) * dt.  Row k is the numerators         *)
(* sum_t dir[t] * 2w[t] * (nSim*Y[t,j] - rowsum[t]) * T over                *)
(* 2*Noff*YDen*nSim*sqrt(sq).                                               *)
XiRows(F_, K, Y) ==
    LET cols == SliceCols(F_, K)
        Yi   == YInt(Y)
        n    == Len(Y[1])
        rs   == RowSums(Y)
    IN  [k \in 1..Len(cols) |->
            [nums |-> [c \in 1..n |->
                          SumSeq([t \in 1..Len(Y) |->
                              cols[k].dir[t] * wTwice(Noff)[t] * (n * Yi[t][c] - rs[t]) * T])],
             sq   |-> cols[k].sq]]

(* np.quantile(xi[k,:], us) interpolated over us: the quantile function of  *)
(* the sample, determined by its order statistics.                          *)
QuantileFunction(xiRow) ==
    [sorted |-> SortSeq(xiRow.nums, LAMBDA a, b : a < b), sq |-> xiRow.sq]

-----------------------------------------------------------------------------
(* Specification SpecCalls: one call of klmcOff(f,K) or of                  *)
(* mc(f,h,J,N,ts,Ms,Taus), statement by statement.  work counts the         *)
(* expensive steps of the call that have run.                               *)

OffVals == {x0, x0 + 1}

McVals == {x0, x0 + 1}

(* Moneyness/Barrier levels (lines 67-69), in hundredths, at reduced size.  *)
Ms == ("Asian" :> <<75, 100, 125>>) @@ ("Lookback" :> <<75, 100, 125>>) @@ ("U&O" :> <<105, 150>>)

Taus == TausOf(nT)

InitCalls ==
    /\ pc \in {"klmcOff:113", "mc:186"}
    /\ IF pc = "klmcOff:113"
       THEN args \in {[fn |-> "klmcOff", f |-> name, K |-> k] :
                        name \in {"Asian", "Lookback"}, k \in 1..MaxK}
       ELSE args \in {[fn |-> "mc", f |-> name, h |-> h[name], J |-> J, N |-> n,
                       ts |-> Linspace0(n), Ms |-> Ms[name], Taus |-> Taus] :
                        name \in {"Asian", "Lookback", "U&O"}, n \in 1..MaxSteps}
    /\ loc = [x \in {} |-> None]
    /\ work = [paths |-> 0, eig |-> 0]
    /\ ret = None
    /\ F = None /\ mu = None /\ phiInv = None /\ key = None /\ p = None
    /\ saved = None /\ heap = None

CallsUnchanged == UNCHANGED <<args, F, mu, phiInv, key, p, saved, heap>>

(* Line 113: Y = f(w2X(BM(T,Noff,Joff),Ts)). *)
OffSimulate ==
    /\ pc = "klmcOff:113"
    /\ \E X \in SimulatedPaths(Noff, Joff, OffVals) :
          /\ NoConstantRow(X)
          /\ loc' = [Y |-> f(args.f, X)]
    /\ work' = [work EXCEPT !.paths = @ + 1]
    /\ pc' = "klmcOff:115"
    /\ UNCHANGED ret
    /\ CallsUnchanged

(* Lines 115-117: mu_ = np.mean(Y,axis=1); F_,lbda = KL(np.cov(Y)). *)
OffEig ==
    /\ pc = "klmcOff:115"
    /\ \E out \in EigOutputs(FredholmOperator(CovNum(loc.Y))) :
          loc' = [Y |-> loc.Y,
                  mu_ |-> [nums |-> RowSums(loc.Y), den |-> YDen(loc.Y) * Len(loc.Y[1])],
                  eig |-> out,
                  F_ |-> KLResult(out).F_,
                  lbda |-> KLResult(out).lbda]
    /\ work' = [work EXCEPT !.eig = @ + 1]
    /\ pc' = "klmcOff:119"
    /\ UNCHANGED ret
    /\ CallsUnchanged

(* Line 122: F = [it.interp1d(ts,F_[:,k]) for k in range(K)]. *)
InterpolatedF(F_, K) ==
    [k \in 1..K |-> [ts |-> Linspace0(Noff), vals |-> F_[k]]]

(* Line 124: phiInv = [it.interp1d(us,np.quantile(xi[k,:],us)) for k in range(K)]. *)
QuantileFunctions(xi, K) ==
    [k \in 1..K |-> QuantileFunction(xi[k])]

(* A slip of line 122: the columns taken with the clipping slice F_[:,:K],  *)
(* so that a K past the last column returns a shorter model.                *)
OffFinishClipped ==
    /\ pc = "klmcOff:119"
    /\ pc' = "returned"
    /\ ret' = [F |-> InterpolatedF(loc.F_, Min2(args.K, Len(loc.F_))),
               mu |-> [ts |-> Linspace0(Noff), vals |-> loc.mu_],
               phiInv |-> QuantileFunctions(XiRows(loc.F_, args.K, loc.Y),
                                            Min2(args.K, Len(loc.F_)))]
    /\ UNCHANGED <<loc, work>>
    /\ CallsUnchanged

(* Lines 119-125: xi; mu = interp1d(ts, mu_); F; phiInv; return F,mu,phiInv. *)
(* The slice F_[:,:K] of line 119 clips at the last column; the index       *)
(* F_[:,k] of line 122 raises IndexError for k past the last column.        *)
OffFinish ==
    /\ pc = "klmcOff:119"
    /\ IF args.K > Len(loc.F_)
       THEN /\ pc' = "raised"
            /\ ret' = "IndexError"
       ELSE /\ pc' = "returned"
            /\ ret' = [F |-> InterpolatedF(loc.F_, args.K),
                       mu |-> [ts |-> Linspace0(Noff), vals |-> loc.mu_],
                       phiInv |-> QuantileFunctions(XiRows(loc.F_, args.K, loc.Y), args.K)]
    /\ UNCHANGED <<loc, work>>
    /\ CallsUnchanged

(* ts - tau for two times given as fractions. *)
TimeDiff(a, b) == [num |-> a.num * b.den - b.num * a.den, den |-> a.den * b.den]

RECURSIVE DivPow10(_, _)
DivPow10(d, k) == IF k = 0 THEN d ELSE DivPow10(d \div 10, k - 1)

(* np.round(x,decimals) == 0: |x| <= 0.5 * 10^-decimals (a half rounds to   *)
(* the even 0), that is 2*|num| <= den / 10^decimals.                       *)
RoundsToZero(x, decimals) == 2 * Abs(x.num) <= DivPow10(x.den, decimals)

(* A slip of the lookup: the grid indices nearest to tau. *)
WhereNearest(ts, tau) ==
    {i \in 1..Len(ts) : \A j \in 1..Len(ts) :
        Abs(TimeDiff(ts[i], tau).num) * ts[j].den <= Abs(TimeDiff(ts[j], tau).num) * ts[i].den}

(* np.where(np.round(ts-tau,12) == 0)[0]: the indices of the matching grid  *)
(* points (counted from 1 here, as the rows of X and f(X) are).             *)
Where(ts, tau) == {i \in 1..Len(ts) : RoundsToZero(TimeDiff(ts[i], tau), 12)}

SetMin(S) == CHOOSE i \in S : \A j \in S : i <= j

(* A variant of mc that looks the maturities up before it simulates. *)
McSimulateValidated ==
    /\ pc = "mc:186"
    /\ IF \E c \in 1..Len(args.Taus) : Where(args.ts, args.Taus[c]) = {}
       THEN /\ pc' = "raised"
            /\ ret' = "IndexError"
            /\ UNCHANGED <<loc, work>>
       ELSE /\ \E X \in SimulatedPaths(args.N, args.J, McVals) : loc' = [X |-> X]
            /\ work' = [work EXCEPT !.paths = @ + 1]
            /\ pc' = "mc:188"
            /\ UNCHANGED ret
    /\ CallsUnchanged

(* Line 186: X = w2X(BM(T,N,J),ts[:,__]). *)
McSimulate ==
    /\ pc = "mc:186"
    /\ \E X \in SimulatedPaths(args.N, args.J, McVals) : loc' = [X |-> X]
    /\ work' = [work EXCEPT !.paths = @ + 1]
    /\ pc' = "mc:188"
    /\ UNCHANGED ret
    /\ CallsUnchanged

(* Line 188: ids = [np.where(...)[0][0] for tau in Taus]; [0] of an empty   *)
(* index array raises IndexError.                                           *)
McLocate ==
    /\ pc = "mc:188"
    /\ IF \E c \in 1..Len(args.Taus) : Where(args.ts, args.Taus[c]) = {}
       THEN /\ pc' = "raised"
            /\ ret' = "IndexError"
            /\ UNCHANGED loc
       ELSE /\ pc' = "mc:190"
            /\ loc' = [X |-> loc.X,
                       ids |-> [c \in 1..Len(args.Taus) |-> SetMin(Where(args.ts, args.Taus[c]))]]
            /\ UNCHANGED ret
    /\ UNCHANGED work
    /\ CallsUnchanged

(* f(X)[ids]: the rows of f(X) at the located indices. *)
TakeRows(Y, ids) == [c \in 1..Len(ids) |-> Y[ids[c]]]

(* Line 190: return mcPrice(f(X)[ids],h,Ms,Taus). *)
McPriceReturn ==
    /\ pc = "mc:190"
    /\ ret' = mcPrice(TakeRows(f(args.f, loc.X), loc.ids), args.h, args.Ms, args.Taus)
    /\ pc' = "returned"
    /\ UNCHANGED <<loc, work>>
    /\ CallsUnchanged

NextCalls == OffSimulate \/ OffEig \/ OffFinish \/ McSimulate \/ McLocate \/ McPriceReturn

SpecCalls == InitCalls /\ [][NextCalls]_vars

OffCall == args.fn = "klmcOff"

McCall == args.fn = "mc"

(* The states of a klmcOff call in which KL has returned. *)
AfterEig == OffCall /\ pc \in {"klmcOff:119", "returned", "raised"}

(* Twice the trapezoidal weight of time point t of Noff+1. *)
RefWeight(t) == IF t = 1 \/ t = Noff + 1 THEN 1 ELSE 2

(* sum(w*u*v)*dt as a numerator over 2*Noff. *)
RefInner(u, v) ==
    LET g[t \in 0..Len(u)] == IF t = 0 THEN 0 ELSE g[t - 1] + RefWeight(t) * u[t] * v[t] * T
    IN  g[Len(u)]

(* Column k of F_ is dir/sqrt(sq): its squared weighted norm is             *)
(* (RefInner(dir,dir)/(2*Noff)) / sq.                                       *)
RefUnitNorm(col) == RefInner(col.dir, col.dir) * col.sq.den = col.sq.num * (2 * Noff)

(* The operator kappa*w.T*dt of the call, from the sample it was built on. *)
RefOperator == FredholmOperator(CovNum(loc.Y))

C3_DescendingMagnitude ==
    (OffCall /\ pc = "returned") =>
        /\ \A k \in 1..(args.K - 1) : Abs(loc.lbda[k]) >= Abs(loc.lbda[k + 1])
        /\ \A k \in 1..args.K : \A j \in (args.K + 1)..Len(loc.lbda) :
              Abs(loc.lbda[j]) <= Abs(loc.lbda[k])

(* C3, amended: the retained eigenfunctions are the first K eigenvectors in *)
(* the order the eigen-solver returned them, each normalised: retained      *)
(* index k is the solver's k-th eigenvector and belongs to its k-th         *)
(* eigenvalue.                                                              *)
C3_SolverOrderKept ==
    (OffCall /\ pc = "returned") =>
        \A k \in 1..args.K :
            /\ ret.F[k].vals.dir = loc.eig.F[k]
            /\ \A t \in 1..Len(loc.eig.F[k]) :
                  MatVec(RefOperator, ret.F[k].vals.dir)[t] = loc.eig.lbda[k] * ret.F[k].vals.dir[t]

C3_Witness ==
    /\ OffCall
    /\ pc = "returned"
    /\ args.K = 2
    /\ Abs(loc.eig.lbda[1]) < Abs(loc.eig.lbda[2])
    /\ Abs(loc.eig.lbda[2]) < Abs(loc.eig.lbda[3])

(* The projections of the centred sample on a direction, one per            *)
(* simulation, as numerators.                                               *)
RefProjection(Y, dir) ==
    LET Yi == YInt(Y)
        n  == Len(Y[1])
        rowSum(t) == LET g[c \in 0..n] == IF c = 0 THEN 0 ELSE g[c - 1] + Yi[t][c] IN g[n]
        proj(c) == LET g[t \in 0..Len(Y)] ==
                           IF t = 0 THEN 0
                           ELSE g[t - 1] + dir[t] * RefWeight(t) * (n * Yi[t][c] - rowSum(t)) * T
                   IN  g[Len(Y)]
    IN  [c \in 1..n |-> proj(c)]

Occurrences(sq, x) == Cardinality({i \in 1..Len(sq) : sq[i] = x})

SameBag(a, b) ==
    /\ Len(a) = Len(b)
    /\ \A i \in 1..Len(a) : Occurrences(a, a[i]) = Occurrences(b, a[i])

(* C4: a returning klmcOff(f,K) returns K eigenfunctions and K quantile     *)
(* functions, entry k of both built from eigenvector column k; with         *)
(* K > Noff+1 the call does not return and ends in IndexError.              *)
C4_ExactlyKOrError ==
    OffCall =>
        /\ pc = "returned" =>
              /\ Len(ret.F) = args.K
              /\ Len(ret.phiInv) = args.K
              /\ \A k \in 1..args.K :
                    /\ ret.F[k].vals = loc.F_[k]
                    /\ ret.phiInv[k].sq = loc.F_[k].sq
                    /\ SameBag(ret.phiInv[k].sorted, RefProjection(loc.Y, loc.eig.F[k]))
                    /\ \A i \in 1..(Len(ret.phiInv[k].sorted) - 1) :
                          ret.phiInv[k].sorted[i] <= ret.phiInv[k].sorted[i + 1]
        /\ args.K > Noff + 1 => pc # "returned"
        /\ pc = "raised" => (args.K > Noff + 1 /\ ret = "IndexError")

C4_Witness ==
    /\ OffCall
    /\ pc = "raised"
    /\ args.K = Noff + 2
    /\ ret = "IndexError"
    /\ args.f = "Asian"

(* Time a equals time b. *)
RefSameTime(a, b) == a.num * b.den = b.num * a.den

RefAligned(ts, tau) == \E i \in 1..Len(ts) : RefSameTime(ts[i], tau)

(* The rows of f(X) at the times Taus. *)
RefRowsAtTaus ==
    [c \in 1..Len(args.Taus) |->
        f(args.f, loc.X)[CHOOSE i \in 1..Len(args.ts) : RefSameTime(args.ts[i], args.Taus[c])]]

(* C5: mc takes for each maturity the grid index whose time equals it, so   *)
(* column c of the returned surface is priced from the path values at time  *)
(* Taus[c]; with a maturity on no grid point mc ends in IndexError and      *)
(* returns no surface.                                                      *)
C5_MaturityLookup ==
    McCall =>
        /\ pc \in {"mc:190", "returned"} =>
              /\ \A c \in 1..Len(args.Taus) : RefAligned(args.ts, args.Taus[c])
              /\ \A c \in 1..Len(args.Taus) :
                    /\ loc.ids[c] \in 1..Len(args.ts)
                    /\ RefSameTime(args.ts[loc.ids[c]], args.Taus[c])
        /\ pc = "returned" =>
              /\ Len(ret) = Len(args.Ms)
              /\ \A i \in 1..Len(args.Ms) : \A c \in 1..Len(args.Taus) :
                    LET Yref == RefRowsAtTaus
                    IN  ret[i][c].num * (100 * Yref[c][1].den * args.J)
                          = RefPaySum(Yref, args.h, args.Ms[i], c) * ret[i][c].den
        /\ pc = "raised" =>
              /\ ret = "IndexError"
              /\ \E c \in 1..Len(args.Taus) : ~ RefAligned(args.ts, args.Taus[c])

C5_Witness ==
    /\ McCall
    /\ pc = "returned"
    /\ args.N = 4
    /\ loc.ids = <<3, 5>>
    /\ args.f = "Asian"
    /\ \E i \in 1..Len(ret) : ret[i][1] # ret[i][2]

(* C7, as stated: a call that fails has failed before its simulation (and, *)
(* in klmcOff, its eigendecomposition) started.                             *)
C7_DetectedBeforeSimulation ==
    pc = "raised" => (work.paths = 0 /\ work.eig = 0)

(* C7, amended: a call that fails has failed after its simulation ran (mc:  *)
(* the lookup of line 188 follows the simulation of line 186) and, in       *)
(* klmcOff, after the eigendecomposition ran (the index of line 122 follows *)
(* lines 113 and 117); nothing is retried: the simulation and the           *)
(* eigendecomposition run at most once per call.                            *)
C7_DetectedAfterSimulation ==
    /\ pc = "raised" =>
          /\ work.paths = 1
          /\ OffCall => work.eig = 1
          /\ McCall => work.eig = 0
    /\ work.paths <= 1
    /\ work.eig <= 1

C7_Witness ==
    /\ McCall
    /\ pc = "raised"
    /\ args.N = 3
    /\ work.paths = 1
    /\ "X" \in DOMAIN loc

-----------------------------------------------------------------------------
(* Specification SpecNotebook: the offline cell (lines 136-140) followed by *)
(* one call priceSurf(met,nMC) (lines 219-236).  A trained model is an      *)
(* object of the heap, named by the klmcOff call that built it; a price     *)
(* surface is named by the call that computed it.                           *)

(* Truncation levels (line 63), at reduced size: each at most Noff+1. *)
K == ("Asian" :> 2) @@ ("Lookback" :> 3) @@ ("U&O" :> 3)

EmptyDict == [x \in {} |-> None]

(* A variant of the offline loop that trains "Lookback" first. *)
OfflineKeysReversed == <<"Lookback", "Asian">>

(* for key in ["Asian","Lookback"] (line 138). *)
OfflineKeys == <<"Asian", "Lookback">>

InitNotebook ==
    /\ pc = "cell4:137"
    /\ \/ args = [met |-> "KLMC", nMC |-> 0]
       \/ \E n \in [{"Asian", "Lookback", "U&O"} -> 1..MaxSteps] : args = [met |-> "MC", nMC |-> n]
    /\ loc = EmptyDict
    /\ F = None /\ mu = None /\ phiInv = None
    /\ key = None
    /\ p = None
    /\ saved = {}
    /\ heap = <<>>
    /\ ret = None
    /\ work = None

(* Line 137: F,mu,phiInv = {},{},{}. *)
OfflineStart ==
    /\ pc = "cell4:137"
    /\ F' = EmptyDict /\ mu' = EmptyDict /\ phiInv' = EmptyDict
    /\ loc' = [i |-> 1]
    /\ pc' = "cell4:138"
    /\ UNCHANGED <<args, work, ret, key, p, saved, heap>>

(* Line 138, one iteration: key is bound at module level, then              *)
(* F[key],mu[key],phiInv[key] = klmcOff(f[key],K[key]), whose three results *)
(* are new objects (klmcOff raises IndexError when K[key] > Noff+1).        *)
OfflineIter ==
    /\ pc = "cell4:138"
    /\ loc.i <= Len(OfflineKeys)
    /\ LET k == OfflineKeys[loc.i]
           o == Len(heap) + 1
       IN  /\ key' = k
           /\ IF K[k] > Noff + 1
              THEN /\ pc' = "raised"
                   /\ ret' = "IndexError"
                   /\ UNCHANGED <<F, mu, phiInv, heap, loc>>
              ELSE /\ heap' = Append(heap, [fn |-> "klmcOff", f |-> k, K |-> K[k]])
                   /\ F' = (k :> [obj |-> o, part |-> "F"]) @@ F
                   /\ mu' = (k :> [obj |-> o, part |-> "mu"]) @@ mu
                   /\ phiInv' = (k :> [obj |-> o, part |-> "phiInv"]) @@ phiInv
                   /\ loc' = [i |-> loc.i + 1]
                   /\ pc' = IF loc.i = Len(OfflineKeys) THEN "cell4:140" ELSE "cell4:138"
                   /\ UNCHANGED ret
    /\ UNCHANGED <<args, work, p, saved>>

(* Line 140: F["U&O"],mu["U&O"],phiInv["U&O"] = F[key],mu[key],phiInv[key], *)
(* with key as the loop of line 138 left it.                                *)
OfflineAlias ==
    /\ pc = "cell4:140"
    /\ F' = ("U&O" :> F[key]) @@ F
    /\ mu' = ("U&O" :> mu[key]) @@ mu
    /\ phiInv' = ("U&O" :> phiInv[key]) @@ phiInv
    /\ pc' = "priceSurf:221"
    /\ UNCHANGED <<args, loc, work, ret, key, p, saved, heap>>

(* Line 221: p,runTime = {},{}. *)
PriceSurfStart ==
    /\ pc = "priceSurf:221"
    /\ p' = EmptyDict
    /\ loc' = [i |-> 1, runTime |-> {}]
    /\ pc' = "priceSurf:222"
    /\ UNCHANGED <<args, work, ret, F, mu, phiInv, key, saved, heap>>

(* The exception that pricing k raises, or None: klmcOn's arguments         *)
(* phiInv[key],F[key],mu[key] raise KeyError for a key without a model      *)
(* (line 225); mc raises IndexError for a maturity on no point of           *)
(* linspace(0,T,nMC[key]+1) (lines 228-229, 188).                           *)
PricingError(k) ==
    IF args.met = "KLMC"
    THEN (IF k \in DOMAIN phiInv /\ k \in DOMAIN F /\ k \in DOMAIN mu THEN None ELSE "KeyError")
    ELSE (IF \E c \in 1..Len(Taus) : Where(Linspace0(args.nMC[k]), Taus[c]) = {}
          THEN "IndexError" ELSE None)

(* The surface of k, named by the call that computes it (lines 225, 229). *)
Surface(k) ==
    IF args.met = "KLMC"
    THEN [fn |-> "klmcOn", phiInv |-> phiInv[k], F |-> F[k], mu |-> mu[k],
          h |-> h[k], J |-> J, Ms |-> Ms[k], Taus |-> Taus]
    ELSE [fn |-> "mc", f |-> k, h |-> h[k], J |-> J, N |-> args.nMC[k],
          ts |-> Linspace0(args.nMC[k]), Ms |-> Ms[k], Taus |-> Taus]

(* The file of lines 233-234: "%s/%s,J = %d,%s%s.csv" % (met,key,J,info,name). *)
SurfaceFile(k) ==
    [met |-> args.met, key |-> k, J |-> J,
     info |-> IF args.met = "KLMC" THEN <<"K", K[k]>> ELSE <<"N", args.nMC[k]>>]

(* The file of lines 235-236. *)
RuntimeFile == [met |-> args.met, key |-> "Runtime", J |-> J, info |-> <<>>]

(* A variant of the loop body that skips a functional whose pricing fails. *)
PriceSurfIterIsolated ==
    /\ pc = "priceSurf:222"
    /\ loc.i <= Len(hKeys)
    /\ LET k == hKeys[loc.i]
       IN  IF PricingError(k) # None
           THEN /\ loc' = [loc EXCEPT !.i = @ + 1]
                /\ UNCHANGED <<p, saved>>
           ELSE /\ p' = (k :> Surface(k)) @@ p
                /\ saved' = saved \cup {SurfaceFile(k)}
                /\ loc' = [i |-> loc.i + 1, runTime |-> loc.runTime \cup {k}]
    /\ pc' = IF loc.i = Len(hKeys) THEN "priceSurf:235" ELSE "priceSurf:222"
    /\ UNCHANGED <<args, work, ret, F, mu, phiInv, key, heap>>

(* Lines 222-234, one iteration of for key in h.keys() (key is local to     *)
(* priceSurf): price, record the run time, save the surface.  Nothing       *)
(* catches an exception of the pricing call: it ends priceSurf.             *)
PriceSurfIter ==
    /\ pc = "priceSurf:222"
    /\ loc.i <= Len(hKeys)
    /\ LET k == hKeys[loc.i]
       IN  IF PricingError(k) # None
           THEN /\ pc' = "raised"
                /\ ret' = PricingError(k)
                /\ UNCHANGED <<p, saved, loc>>
           ELSE /\ p' = (k :> Surface(k)) @@ p
                /\ saved' = saved \cup {SurfaceFile(k)}
                /\ loc' = [i |-> loc.i + 1, runTime |-> loc.runTime \cup {k}]
                /\ pc' = IF loc.i = Len(hKeys) THEN "priceSurf:235" ELSE "priceSurf:222"
                /\ UNCHANGED ret
    /\ UNCHANGED <<args, work, F, mu, phiInv, key, heap>>

(* Lines 235-236: the run times of all functionals are saved. *)
PriceSurfEnd ==
    /\ pc = "priceSurf:235"
    /\ saved' = saved \cup {RuntimeFile}
    /\ pc' = "done"
    /\ UNCHANGED <<args, loc, work, ret, F, mu, phiInv, key, p, heap>>

NextNotebook ==
    OfflineStart \/ OfflineIter \/ OfflineAlias \/ PriceSurfStart \/ PriceSurfIter \/ PriceSurfEnd

SpecNotebook == InitNotebook /\ [][NextNotebook]_vars

(* The offline cell has run to its end. *)
OfflineDone == pc \in {"priceSurf:221", "priceSurf:222", "priceSurf:235", "done"} \/
               (pc = "raised" /\ "runTime" \in DOMAIN loc)

(* C2: after the offline phase the model under "U&O" is the same object as  *)
(* the model under "Lookback", which klmcOff built for "Lookback" (no       *)
(* klmcOff call was made for "U&O", and it is not the "Asian" model), and   *)
(* every key of h has a model.                                              *)
C2_BarrierSharesLookbackModel ==
    OfflineDone =>
        /\ F["U&O"] = F["Lookback"]
        /\ mu["U&O"] = mu["Lookback"]
        /\ phiInv["U&O"] = phiInv["Lookback"]
        /\ heap[F["U&O"].obj].f = "Lookback"
        /\ F["U&O"].obj # F["Asian"].obj
        /\ F["U&O"].obj = mu["U&O"].obj /\ mu["U&O"].obj = phiInv["U&O"].obj
        /\ \A o \in 1..Len(heap) : heap[o].f # "U&O"
        /\ Len(heap) = 2
        /\ \A i \in 1..Len(hKeys) :
              hKeys[i] \in DOMAIN F /\ hKeys[i] \in DOMAIN mu /\ hKeys[i] \in DOMAIN phiInv

C2_Witness ==
    /\ pc = "done"
    /\ args.met = "KLMC"
    /\ p["U&O"].F = p["Lookback"].F
    /\ p["U&O"].phiInv # p["Asian"].phiInv
    /\ heap[p["U&O"].mu.obj].f = "Lookback"

(* The position in h.keys() of the functional whose pricing failed. *)
FailedAt == loc.i

PriceSurfFailed == pc = "raised" /\ "runTime" \in DOMAIN loc

(* C6, as stated: when pricing one functional fails, the surfaces of all    *)
(* other functionals, before and after it, are computed and saved, and      *)
(* nothing is written for the failing one.                                  *)
C6_OthersUnaffected ==
    PriceSurfFailed =>
        /\ \A i \in 1..Len(hKeys) :
              (i # FailedAt /\ PricingError(hKeys[i]) = None) =>
                  (hKeys[i] \in DOMAIN p /\ SurfaceFile(hKeys[i]) \in saved)
        /\ hKeys[FailedAt] \notin DOMAIN p
        /\ SurfaceFile(hKeys[FailedAt]) \notin saved

(* C6, amended: when pricing one functional fails, priceSurf ends there:    *)
(* the functionals before it in iteration order have their surfaces         *)
(* computed and saved, the failing one and all functionals after it have    *)
(* no surface and no file, and the run-time table is not written; a         *)
(* priceSurf that ends normally has computed and saved every functional.    *)
C6_FailureEndsLoop ==
    /\ PriceSurfFailed =>
          /\ PricingError(hKeys[FailedAt]) # None
          /\ \A i \in 1..Len(hKeys) :
                IF i < FailedAt
                THEN hKeys[i] \in DOMAIN p /\ SurfaceFile(hKeys[i]) \in saved
                ELSE hKeys[i] \notin DOMAIN p /\ SurfaceFile(hKeys[i]) \notin saved
          /\ RuntimeFile \notin saved
          /\ Cardinality(saved) = FailedAt - 1
    /\ pc = "done" =>
          /\ \A i \in 1..Len(hKeys) :
                /\ PricingError(hKeys[i]) = None
                /\ hKeys[i] \in DOMAIN p
                /\ p[hKeys[i]] = Surface(hKeys[i])
                /\ SurfaceFile(hKeys[i]) \in saved
          /\ RuntimeFile \in saved

C6_Witness ==
    /\ PriceSurfFailed
    /\ args.met = "MC"
    /\ hKeys[FailedAt] = "Lookback"
    /\ PricingError("U&O") = None
    /\ SurfaceFile("Asian") \in saved
    /\ SurfaceFile("U&O") \notin saved
    /\ ret = "IndexError"

=============================================================================
